---------------------------- MODULE Spec2Model ----------------------------
(***************************************************************************)
(* Clinical-trial protocol pipeline (lk4ml/Protocol_database).             *)
(*                                                                         *)
(*   src/src/database.py    ProtocolDatabase   (the store)                 *)
(*   src/src/api_client.py  ClinicalTrialsAPI  (paginated fetch client)    *)
(*   src/src/downloader.py  ProtocolDownloader, PipelineRunner             *)
(*                                                                         *)
(* Text values (Python str / SQL TEXT) are sequences of one-character      *)
(* strings, so that slicing, lower-casing and substring tests are          *)
(* computed; NULL stands for Python None / SQL NULL.                       *)
(***************************************************************************)
EXTENDS Integers, Sequences, FiniteSets, TLC

VARIABLES
    protocols,          \* table protocols, rows in rowid order
    download_history,   \* table download_history, rows in rowid order
    clock,              \* CURRENT_TIMESTAMP, in whole seconds
    ret,                \* outcome of the last direct call of a store method
    remote,             \* the registry's answer to a query: its chain of pages
    files,              \* paths that exist under PROTOCOLS_DIR
    pc,                 \* position of the pipeline process
    run,                \* arguments of the PipelineRunner.run call
    frame,              \* locals of run, process_indication, download_missing_pdfs
    all_stats,          \* PipelineRunner.run: the entries collected so far
    stats,              \* process_indication: the statistics of the current term
    gen,                \* search_studies: the frame of the generator
    obs                 \* what the current search_studies call has done so far

storeVars == <<protocols, download_history, clock, ret>>
pipeVars  == <<remote, files, pc, run, frame, all_stats, stats, gen, obs>>
vars      == <<protocols, download_history, clock, ret,
               remote, files, pc, run, frame, all_stats, stats, gen, obs>>

-----------------------------------------------------------------------------
(* Bounds of the model *)

MaxClock   == 1     \* the clock runs from 0 to MaxClock
MaxHistory == 1     \* direct log_download calls stop at this many entries
MaxPages   == 2     \* the registry's chain has at most this many pages
MaxStudies == 3     \* ... holding at most this many studies in all
MaxTerms   == 2     \* PipelineRunner.run is given at most this many terms

-----------------------------------------------------------------------------
(* Text *)

NULL  == <<"NULL">>
Empty == <<>>

\* Python truthiness of an optional text: None and '' are falsy
Truthy(x) == x # NULL /\ x # Empty

RECURSIVE Flatten(_)
Flatten(ss) == IF ss = <<>> THEN <<>> ELSE Head(ss) \o Flatten(Tail(ss))

\* str.lower() on the characters the model uses
LowerChar(c) ==
    CASE c = "A" -> "a"
      [] c = "B" -> "b"
      [] c = "C" -> "c"
      [] c = "P" -> "p"
      [] c = "S" -> "s"
      [] OTHER   -> c

Lower(s) == [i \in 1..Len(s) |-> LowerChar(s[i])]

\* `sub in s` for Python strings
Contains(sub, s) ==
    \E i \in 0..(Len(s) - Len(sub)) : SubSeq(s, i + 1, i + Len(sub)) = sub

\* s[-2:]
LastTwo(s) == IF Len(s) <= 2 THEN s ELSE SubSeq(s, Len(s) - 1, Len(s))

\* dict.get(key, default)
Get(d, key, default) == IF key \in DOMAIN d THEN d[key] ELSE default

-----------------------------------------------------------------------------
(* Inputs *)

\* registry ids, and the search terms: both terms are stored in the folder "a"
NctIds == { <<"N", "0", "1">>, <<"N", "0", "2">> }
Terms  == { <<"a">>, <<"A", "!">> }


-----------------------------------------------------------------------------
(* api_client.py: normalisation of a remote payload *)

\* the payload of one study: the identification module and the large documents
Study(nct, title, docs) ==
    [nctId |-> nct, officialTitle |-> title, largeDocs |-> docs]

\* a document descriptor is selected when its lower-cased label contains
\* 'protocol' or 'sap' and its filename is non-empty
IsProtocolDoc(doc) ==
    /\ \/ Contains(<<"p", "r", "o", "t", "o", "c", "o", "l">>,
                    Lower(Get(doc, "label", Empty)))
       \/ Contains(<<"s", "a", "p">>, Lower(Lower(Get(doc, "label", Empty))))
    /\ Get(doc, "filename", Empty) # Empty

DocUrl(nct, filename) ==
    <<"https://clinicaltrials.gov/ProvidedDocs/">> \o LastTwo(nct) \o <<"/">>
        \o nct \o <<"/">> \o filename

\* the URL of the first selected descriptor, None when there is none
ProtocolUrl(nct, docs) ==
    LET hits == { i \in 1..Len(docs) : IsProtocolDoc(docs[i]) }
    IN  IF hits = {} THEN NULL
        ELSE LET first == CHOOSE i \in hits : \A j \in hits : i <= j
             IN  DocUrl(nct, Get(docs[first], "filename", Empty))

\* has_protocol_doc of a parsed record: whether a document URL was derived
ParsedHasDoc(url) == url # NULL

\* the record _parse_study returns (it has no protocol_pdf_path key)
ParseStudy(study, indication) ==
    LET url == ProtocolUrl(study.nctId, study.largeDocs)
    IN  [nct_id           |-> study.nctId,
         official_title   |-> study.officialTitle,
         indication       |-> indication,
         protocol_url     |-> url,
         has_protocol_doc |-> ParsedHasDoc(url)]

\* {} as the default of dict.get
EmptyDict == <<>>

\* the value of a decimal digit, and of a string of at most nine of them
DigitValue(c) ==
    CASE c = "0" -> 0 [] c = "1" -> 1 [] c = "2" -> 2 [] c = "3" -> 3
      [] c = "4" -> 4 [] c = "5" -> 5 [] c = "6" -> 6 [] c = "7" -> 7
      [] c = "8" -> 8 [] c = "9" -> 9
IsDigit(c) == c \in {"0", "1", "2", "3", "4", "5", "6", "7", "8", "9"}
AllDigits(s) == \A i \in 1..Len(s) : IsDigit(s[i])
RECURSIVE Decimal(_)
Decimal(s) ==
    IF s = <<>> THEN 0 ELSE 10 * Decimal(SubSeq(s, 1, Len(s) - 1)) + DigitValue(s[Len(s)])

\* whether the number a digit string denotes exceeds the largest C int,
\* 2147483647, which is what datetime's year argument is converted to
ExceedsCInt(s) ==
    \/ Len(s) > 10
    \/ /\ Len(s) = 10
       /\ LET hi == Decimal(SubSeq(s, 1, 9))
              lo == DigitValue(s[10])
          IN  hi > 214748364 \/ (hi = 214748364 /\ lo > 7)

\* dateutil.parser.parse(start_date), for the forms of start date modelled:
\* a number of 4, 5, 7, 9, 10 or more than 14 digits is taken as a year and
\* handed to datetime, which raises OverflowError when it does not fit a C
\* int and ValueError when it is not in 1..9999; YYYY-MM gives its year
\* when the month is one; a string without a digit is not a date
\* (ParserError, a ValueError)
ParseDate(s) ==
    CASE AllDigits(s) /\ (Len(s) \in {4, 5, 7, 9, 10} \/ Len(s) > 14) ->
            IF ExceedsCInt(s) THEN [raised |-> "OverflowError", year |-> NULL]
            ELSE IF Decimal(s) \in 1..9999 THEN [raised |-> "none", year |-> Decimal(s)]
            ELSE [raised |-> "ValueError", year |-> NULL]
      [] Len(s) = 7 /\ AllDigits(SubSeq(s, 1, 4)) /\ s[5] = "-"
            /\ AllDigits(SubSeq(s, 6, 7)) ->
            IF Decimal(SubSeq(s, 6, 7)) \in 1..12 /\ Decimal(SubSeq(s, 1, 4)) >= 1
            THEN [raised |-> "none", year |-> Decimal(SubSeq(s, 1, 4))]
            ELSE [raised |-> "ValueError", year |-> NULL]
      [] \A i \in 1..Len(s) : ~IsDigit(s[i]) ->
            [raised |-> "ValueError", year |-> NULL]

\* _parse_study on a payload of nested sections, any of which may be absent:
\* the record returned, or the exception that leaves the function (a
\* ValueError or TypeError of parse_date is caught and leaves year unset)
ParseStudyData(study_data, indication) ==
    LET protocol_section  == Get(study_data, "protocolSection", EmptyDict)
        id_module         == Get(protocol_section, "identificationModule", EmptyDict)
        nct_id            == Get(id_module, "nctId", Empty)
        official_title    == Get(id_module, "officialTitle", Empty)
        status_module     == Get(protocol_section, "statusModule", EmptyDict)
        start_date_struct == Get(status_module, "startDateStruct", EmptyDict)
        start_date        == Get(start_date_struct, "date", Empty)
        parsed_date       == IF start_date # Empty THEN ParseDate(start_date)
                             ELSE [raised |-> "none", year |-> NULL]
        caught            == parsed_date.raised \in {"ValueError", "TypeError"}
        document_section  == Get(study_data, "documentSection", EmptyDict)
        large_docs        == Get(document_section, "largeDocumentModule", EmptyDict)
        large_doc_list    == Get(large_docs, "largeDocs", <<>>)
        protocol_url      == ProtocolUrl(nct_id, large_doc_list)
    IN  IF parsed_date.raised # "none" /\ ~caught
        THEN [raised |-> parsed_date.raised]
        ELSE [raised |-> "none",
              value  |-> [nct_id           |-> nct_id,
                          official_title   |-> official_title,
                          year             |-> parsed_date.year,
                          start_date       |-> start_date,
                          indication       |-> indication,
                          protocol_url     |-> protocol_url,
                          has_protocol_doc |-> ParsedHasDoc(protocol_url)]]

-----------------------------------------------------------------------------
(* database.py: the store *)

\* SELECT id FROM protocols WHERE nct_id = ?
SelectByNct(tbl, nct) == { i \in 1..Len(tbl) : tbl[i].nct_id = nct }

\* a defect: the UPDATE leaves the term of the first ingestion in place
UpdateRowKeepsIndication(row, rec, now) ==
    [row EXCEPT
        !.official_title    = Get(rec, "official_title", NULL),
        !.protocol_url      = Get(rec, "protocol_url", NULL),
        !.protocol_pdf_path = Get(rec, "protocol_pdf_path", NULL),
        !.has_protocol_doc  = Get(rec, "has_protocol_doc", FALSE),
        !.updated_at        = now]

\* the UPDATE of upsert_protocol: every column but id, nct_id and created_at
UpdateRow(row, rec, now) ==
    [row EXCEPT
        !.official_title    = Get(rec, "official_title", NULL),
        !.indication        = Get(rec, "indication", NULL),
        !.protocol_url      = Get(rec, "protocol_url", NULL),
        !.protocol_pdf_path = Get(rec, "protocol_pdf_path", NULL),
        !.has_protocol_doc  = Get(rec, "has_protocol_doc", FALSE),
        !.updated_at        = now]

\* the row INSERT creates: AUTOINCREMENT id, both timestamps default to now
NewRow(tbl, rec, now) ==
    [id                |-> Len(tbl) + 1,
     nct_id            |-> rec.nct_id,
     official_title    |-> Get(rec, "official_title", NULL),
     indication        |-> Get(rec, "indication", NULL),
     protocol_url      |-> Get(rec, "protocol_url", NULL),
     protocol_pdf_path |-> Get(rec, "protocol_pdf_path", NULL),
     has_protocol_doc  |-> Get(rec, "has_protocol_doc", FALSE),
     created_at        |-> now,
     updated_at        |-> now]

\* nct_id TEXT UNIQUE NOT NULL: whether inserting nct would break the constraint
UniqueViolation(tbl, nct) == nct = NULL \/ SelectByNct(tbl, nct) # {}

\* a defect: INSERT without the existence check, on a table without UNIQUE
UpsertInsertOnly(tbl, rec, now) ==
    [rows |-> Append(tbl, NewRow(tbl, rec, now)), new |-> TRUE, raised |-> FALSE]

\* a defect: the UPDATE branch reports a new row
UpsertAlwaysNew(tbl, rec, now) ==
    IF SelectByNct(tbl, rec.nct_id) # {}
    THEN [rows   |-> [i \in 1..Len(tbl) |->
                        IF tbl[i].nct_id = rec.nct_id
                        THEN UpdateRow(tbl[i], rec, now) ELSE tbl[i]],
          new    |-> TRUE,
          raised |-> FALSE]
    ELSE [rows |-> Append(tbl, NewRow(tbl, rec, now)), new |-> TRUE, raised |-> FALSE]

\* a defect: the rows of the record's indication are deleted before the
\* record is inserted
UpsertRefreshesTerm(tbl, rec, now) ==
    LET kept == SelectSeq(tbl, LAMBDA row :
                    row.indication # Get(rec, "indication", NULL)
                    /\ row.nct_id # rec.nct_id)
    IN  [rows   |-> Append(kept, NewRow(kept, rec, now)),
         new    |-> SelectByNct(tbl, rec.nct_id) = {},
         raised |-> FALSE]

\* upsert_protocol without a failure of the storage engine: the table after
\* the commit, the value returned, and whether the statement raised (then the
\* transaction is rolled back and the table is as before)
UpsertProtocol(tbl, rec, now) ==
    IF SelectByNct(tbl, rec.nct_id) # {}
    THEN [rows   |-> [i \in 1..Len(tbl) |->
                        IF tbl[i].nct_id = rec.nct_id
                        THEN UpdateRow(tbl[i], rec, now) ELSE tbl[i]],
          new    |-> FALSE,
          raised |-> FALSE]
    ELSE IF UniqueViolation(tbl, rec.nct_id)
         THEN [rows |-> tbl, new |-> FALSE, raised |-> TRUE]
         ELSE [rows   |-> Append(tbl, NewRow(tbl, rec, now)),
               new    |-> TRUE,
               raised |-> FALSE]

\* a defect: the except branch of _get_connection leaves the writes in place
RollbackKeepsWrites(committed, working) == working

\* conn.rollback(): the database is again as it was when the transaction began
Rollback(committed, working) == committed

\* _get_connection: the database after the with block. committed: the
\* database when the connection was opened; working: the database as the
\* statements of the block have left it inside the transaction; failed: the
\* block or conn.commit() raised
GetConnection(committed, working, failed) ==
    IF failed THEN Rollback(committed, working) ELSE working

\* a defect: the connection is closed only when the block succeeds
ReleaseOnSuccessOnly(open, failed) == IF failed THEN open ELSE open - 1

\* _get_connection, `finally: conn.close()`: the number of open connections
\* after the with block, on the path that commits and on the path that
\* rolls back and re-raises
ReleaseConnection(open, failed) == open - 1

\* where the storage engine may fail inside upsert_protocol: after the
\* existence check, in the UPDATE or INSERT, or in conn.commit()
FailPoints == {"check", "write", "commit"}

\* upsert_protocol when the storage engine fails at the given point: up to
\* the UPDATE or INSERT the transaction holds no write, at the commit it holds
\* the statement's write
UpsertFailing(tbl, rec, now, at) ==
    LET r == UpsertProtocol(tbl, rec, now)
    IN  GetConnection(tbl, IF at = "commit" THEN r.rows ELSE tbl, TRUE)

\* a defect: the UPDATE has no WHERE clause and sets the path on every row
UpdatePdfPathAllRows(tbl, nct, pdf_path, now) ==
    [i \in 1..Len(tbl) |->
        [tbl[i] EXCEPT !.protocol_pdf_path = pdf_path,
                       !.has_protocol_doc  = TRUE,
                       !.updated_at        = now]]

\* update_pdf_path: UPDATE ... SET protocol_pdf_path, has_protocol_doc = 1
UpdatePdfPath(tbl, nct, pdf_path, now) ==
    [i \in 1..Len(tbl) |->
        IF tbl[i].nct_id = nct
        THEN [tbl[i] EXCEPT !.protocol_pdf_path = pdf_path,
                            !.has_protocol_doc  = TRUE,
                            !.updated_at        = now]
        ELSE tbl[i]]

\* the WHERE clause of get_protocols_without_pdf
WithoutPdfWhere(row, indication) ==
    /\ row.protocol_url # NULL
    /\ (row.protocol_pdf_path = NULL \/ row.protocol_pdf_path = Empty)
    /\ (Truthy(indication) => row.indication = indication)

\* get_protocols_without_pdf(indication): the selected rows, in rowid order
GetProtocolsWithoutPdf(tbl, indication) ==
    LET F[i \in 0..Len(tbl)] ==
            IF i = 0 THEN <<>>
            ELSE IF WithoutPdfWhere(tbl[i], indication)
                 THEN Append(F[i - 1], tbl[i]) ELSE F[i - 1]
    IN  F[Len(tbl)]

\* get_protocols_by_indication: SELECT * FROM protocols WHERE indication = ?
\* (ORDER BY year DESC; the rows modelled carry no year, so they are all
\* ties and are listed in table order)
GetProtocolsByIndication(tbl, indication) ==
    SelectSeq(tbl, LAMBDA row : row.indication = indication)

\* get_statistics(indication) for a term: COUNT(*) and the count of rows
\* with has_protocol_doc = 1, FROM protocols WHERE indication = ?
GetStatistics(tbl, indication) ==
    [total_studies  |-> Cardinality({ i \in 1..Len(tbl) :
                                        tbl[i].indication = indication }),
     with_protocols |-> Cardinality({ i \in 1..Len(tbl) :
                                        /\ tbl[i].indication = indication
                                        /\ tbl[i].has_protocol_doc = TRUE })]

\* a defect: the downloaded count is logged as the count of new studies
HistoryRowNewFromDownloaded(tbl, indication, found, downloaded, new, updated, status, now) ==
    [id                   |-> Len(tbl) + 1,
     indication           |-> indication,
     download_date        |-> now,
     studies_found        |-> found,
     protocols_downloaded |-> downloaded,
     new_studies          |-> downloaded,
     updated_studies      |-> updated,
     status               |-> status]

\* the row log_download inserts
HistoryRow(tbl, indication, found, downloaded, new, updated, status, now) ==
    [id                   |-> Len(tbl) + 1,
     indication           |-> indication,
     download_date        |-> now,
     studies_found        |-> found,
     protocols_downloaded |-> downloaded,
     new_studies          |-> new,
     updated_studies      |-> updated,
     status               |-> status]

\* a defect: INSERT OR REPLACE on the indication, which rewrites the entry
\* of an earlier run of the same term
ReplaceHistory(tbl, row) ==
    IF \E i \in 1..Len(tbl) : tbl[i].indication = row.indication
    THEN [i \in 1..Len(tbl) |->
            IF tbl[i].indication = row.indication
            THEN [row EXCEPT !.id = tbl[i].id] ELSE tbl[i]]
    ELSE Append(tbl, row)

\* INSERT INTO download_history: the one statement of log_download
InsertHistory(tbl, row) == Append(tbl, row)

-----------------------------------------------------------------------------
(* downloader.py: where a document is stored *)

IsWordChar(c) ==
    c \in {"a", "b", "c", "p", "s", "t", "u", "A", "B", "C", "P", "S",
           "N", "0", "1", "2", "_"}
IsSpaceChar(c) == c = " "

\* re.sub(r'[^\w\s-]', '', s)
RECURSIVE StripSpecial(_)
StripSpecial(s) ==
    IF s = <<>> THEN <<>>
    ELSE IF IsWordChar(Head(s)) \/ IsSpaceChar(Head(s)) \/ Head(s) = "-"
         THEN <<Head(s)>> \o StripSpecial(Tail(s))
         ELSE StripSpecial(Tail(s))

\* re.sub(r'[\s]+', '_', s)
RECURSIVE CollapseSpaces(_)
CollapseSpaces(s) ==
    IF s = <<>> THEN <<>>
    ELSE IF IsSpaceChar(Head(s))
         THEN IF Len(s) > 1 /\ IsSpaceChar(s[2])
              THEN CollapseSpaces(Tail(s))
              ELSE <<"_">> \o CollapseSpaces(Tail(s))
         ELSE <<Head(s)>> \o CollapseSpaces(Tail(s))

SanitizeFolderName(name) == CollapseSpaces(StripSpecial(Lower(name)))

\* a defect: the file is never found
ExistsNever(fs, path) == FALSE

\* pdf_path.exists()
Exists(fs, path) == path \in fs

\* str(indication_folder / f"{nct_id}_protocol.pdf")
PdfPath(indication, nct) ==
    <<"protocols/">> \o SanitizeFolderName(indication) \o <<"/">>
        \o nct \o <<"_protocol.pdf">>

-----------------------------------------------------------------------------
(* Direct calls of the store's methods *)

\* ret: what the last direct call returned or raised
NoCall == "none"

\* the document lists the direct calls draw their records from
StoreDocLists ==
    { <<>>,
      <<[label |-> <<"I", "C", "F">>, filename |-> <<"i">>],
        [label |-> <<"S", "A", "P">>, filename |-> <<"s">>]>> }

\* records as _parse_study produces them: each term serves its own title
TitleOf(indication) == IF indication = <<"a">> THEN <<"t">> ELSE <<"u">>
ParsedRecords ==
    { ParseStudy(Study(n, TitleOf(i), d), i) :
        n \in NctIds, d \in StoreDocLists, i \in Terms }

\* other dictionaries a caller may pass: an empty URL, or a path of its own
RawRecords ==
    { [nct_id |-> n, official_title |-> <<"t">>, indication |-> <<"a">>,
       protocol_url |-> Empty] : n \in NctIds }
    \cup
    { [nct_id |-> n, official_title |-> <<"u">>, indication |-> <<"a">>,
       protocol_url |-> NULL, protocol_pdf_path |-> PdfPath(<<"a">>, n),
       has_protocol_doc |-> TRUE] : n \in NctIds }

\* db.upsert_protocol(rec); fail: the storage engine fails and the
\* transaction is rolled back
StoreUpsert(rec, fail) ==
    /\ pc = "idle"
    /\ LET r == UpsertProtocol(protocols, rec, clock)
       IN  /\ \E at \in IF fail THEN FailPoints ELSE {"none"} :
                  protocols' = IF fail
                               THEN UpsertFailing(protocols, rec, clock, at)
                               ELSE GetConnection(protocols, r.rows, r.raised)
           /\ ret' = IF fail \/ r.raised THEN "raised"
                      ELSE IF r.new THEN "new" ELSE "updated"
    /\ UNCHANGED <<download_history, clock, pipeVars>>

\* db.update_pdf_path(nct, pdf_path)
StoreUpdatePdfPath(nct, pdf_path, fail) ==
    /\ pc = "idle"
    /\ protocols' = IF fail THEN protocols
                    ELSE UpdatePdfPath(protocols, nct, pdf_path, clock)
    /\ ret' = IF fail THEN "raised" ELSE "done"
    /\ UNCHANGED <<download_history, clock, pipeVars>>

\* db.log_download(...)
StoreLogDownload(indication, found, fail) ==
    /\ pc = "idle"
    /\ Len(download_history) < MaxHistory
    /\ download_history' =
           IF fail THEN download_history
           ELSE InsertHistory(download_history,
                              HistoryRow(download_history, indication, found, 0,
                                         found, 0, <<"c">>, clock))
    /\ ret' = IF fail THEN "raised" ELSE "done"
    /\ UNCHANGED <<protocols, clock, pipeVars>>

\* a second passes
Tick ==
    /\ clock < MaxClock
    /\ clock' = clock + 1
    /\ UNCHANGED <<protocols, download_history, ret, pipeVars>>

\* the pipeline at rest
NoRun   == [indications |-> <<>>, download_pdfs |-> FALSE, max_studies |-> NULL]
NoFrame == [k |-> 0, studies_processed |-> 0, attempt |-> 0]
NoStats == [indication |-> NULL]
NoGen   == [page_token |-> NULL, total_fetched |-> 0, attempt |-> 0,
            studies |-> <<>>, next_token |-> NULL, pos |-> 0]
NoObs   == [requests |-> 0, page |-> 0, page_attempts |-> 0, yielded |-> <<>>,
            failed |-> FALSE, exhausted |-> 0, ended |-> FALSE,
            rows_before |-> 0, outcomes |-> <<>>,
            waits |-> <<>>, upserted |-> <<>>, dl_gets |-> 0, dl_waits |-> <<>>,
            dl_delays |-> 0, dl_exhausted |-> 0,
            page_delays |-> 0, dl_calls |-> 0, conns |-> 0, held |-> 0,
            linked_before |-> <<>>, dl_ok |-> <<>>, path_calls |-> <<>>]

InitStore ==
    /\ protocols = <<>>
    /\ download_history = <<>>
    /\ clock = 0
    /\ ret = NoCall
    /\ remote = <<>>
    /\ files = {}
    /\ pc = "idle"
    /\ run = NoRun
    /\ frame = NoFrame
    /\ all_stats = <<>>
    /\ stats = NoStats
    /\ gen = NoGen
    /\ obs = NoObs

UpsertParsedCall == \E rec \in ParsedRecords, fail \in BOOLEAN : StoreUpsert(rec, fail)
UpsertRawCall    == \E rec \in RawRecords : StoreUpsert(rec, FALSE)
UpdatePdfPathCall ==
    \E n \in NctIds, i \in Terms, fail \in BOOLEAN :
        StoreUpdatePdfPath(n, PdfPath(i, n), fail)
LogDownloadCall ==
    \E fail \in BOOLEAN : StoreLogDownload(<<"a">>, 1, fail)

\* the store under records produced by _parse_study
NextParsed == UpsertParsedCall \/ UpdatePdfPathCall \/ LogDownloadCall \/ Tick
SpecParsed == InitStore /\ [][NextParsed]_vars

\* the protocols table under any caller
NextRows == UpsertParsedCall \/ UpsertRawCall \/ UpdatePdfPathCall \/ Tick
SpecRows == InitStore /\ [][NextRows]_vars

\* upsert_protocol alone, under any caller
NextUpserts == UpsertParsedCall \/ UpsertRawCall \/ Tick
SpecUpserts == InitStore /\ [][NextUpserts]_vars

\* the store under any caller
NextStore ==
    UpsertParsedCall \/ UpsertRawCall \/ UpdatePdfPathCall \/ LogDownloadCall \/ Tick
SpecStore == InitStore /\ [][NextStore]_vars


-----------------------------------------------------------------------------
(* Properties of the store *)

StoreRecords == ParsedRecords \cup RawRecords

Range(f) == { f[i] : i \in DOMAIN f }

\* C1: after any sequence of upsert_protocol, update_pdf_path and
\* log_download calls the protocols table holds at most one row per nct_id.
C1_OneRowPerNctId ==
    \A i, j \in 1..Len(protocols) :
        protocols[i].nct_id = protocols[j].nct_id => i = j

\* two ids are stored, one of them was just upserted a second time, and a
\* run has been logged
C1_Witness ==
    /\ Len(protocols) = 2
    /\ ret = "updated"
    /\ download_history # <<>>

\* what C2 says of an upsert_protocol call that returns, but for updated_at:
\* True exactly when no row held the id; after a later call there is one row
\* for the id and its created_at is as before
C2_ReturnAndRow(rec) ==
    LET before == SelectByNct(protocols, rec.nct_id)
        after  == SelectByNct(protocols', rec.nct_id)
    IN  /\ Cardinality(after) = 1
        /\ IF before = {} THEN ret' = "new"
           ELSE /\ ret' = "updated"
                /\ \A i \in before :
                      /\ i \in after
                      /\ protocols'[i].created_at = protocols[i].created_at

\* C2 as stated: the first upsert_protocol call for an nct_id returns True and
\* every later one False; after a later call there is still exactly one row
\* for the id, its created_at is unchanged and its updated_at has advanced.
C2_UpdatedAtAdvances ==
    [][\A rec \in StoreRecords :
          StoreUpsert(rec, FALSE) =>
              /\ C2_ReturnAndRow(rec)
              /\ \A i \in SelectByNct(protocols, rec.nct_id) :
                    protocols'[i].updated_at > protocols[i].updated_at]_vars

\* C2, amended: as stated, except that updated_at is set to the current
\* timestamp, which has whole seconds: it is never earlier than before and is
\* later only when the second has changed since the row was last written.
C2_UpdatedAtIsNow ==
    [][\A rec \in StoreRecords :
          StoreUpsert(rec, FALSE) =>
              /\ C2_ReturnAndRow(rec)
              /\ \A i \in SelectByNct(protocols, rec.nct_id) :
                    /\ protocols'[i].updated_at = clock
                    /\ protocols'[i].updated_at >= protocols[i].updated_at]_vars

\* a later call with another title has returned False and the row's
\* updated_at is past its created_at
C2_Witness ==
    /\ ret = "updated"
    /\ \E i \in 1..Len(protocols) :
          /\ protocols[i].updated_at > protocols[i].created_at
          /\ protocols[i].official_title = <<"u">>
          /\ protocols[i].indication = <<"a">>

\* C3: upsert_protocol on an nct_id whose row has a recorded
\* protocol_pdf_path, with a record that carries no document URL and no
\* path, leaves that protocol_pdf_path unchanged.
C3_PathPreserved ==
    [][\A rec \in StoreRecords :
          ( /\ StoreUpsert(rec, FALSE)
            /\ ~Truthy(Get(rec, "protocol_url", NULL))
            /\ "protocol_pdf_path" \notin DOMAIN rec )
          => \A i \in SelectByNct(protocols, rec.nct_id) :
                Truthy(protocols[i].protocol_pdf_path) =>
                    protocols'[i].protocol_pdf_path = protocols[i].protocol_pdf_path]_vars

\* C4: in every store state reached by upsert_protocol calls with records of
\* _parse_study and by update_pdf_path calls, a row's has_protocol_doc is
\* true if and only if a protocol_pdf_path is recorded for it.
C4_FlagIffPath ==
    \A i \in 1..Len(protocols) :
        protocols[i].has_protocol_doc <=> Truthy(protocols[i].protocol_pdf_path)

\* C8: a row is in the result of get_protocols_without_pdf() if and only if
\* its document URL is non-empty and its local path is empty or unset (and,
\* with an indication argument, its indication is that argument).
C8_MissingDocuments ==
    \A arg \in {NULL} \cup Terms :
        \A i \in 1..Len(protocols) :
            protocols[i] \in Range(GetProtocolsWithoutPdf(protocols, arg))
            <=> /\ Truthy(protocols[i].protocol_url)
                /\ ~Truthy(protocols[i].protocol_pdf_path)
                /\ (arg # NULL => protocols[i].indication = arg)

\* the rows of the table that hold the id
RowsOf(tbl, nct) == { tbl[i] : i \in SelectByNct(tbl, nct) }

\* C11: upsert_protocol is atomic: if the storage engine fails inside the
\* call (after the existence check, in the UPDATE or INSERT, or at the
\* commit) the call raises and the row of the nct_id is exactly as it was
\* before the call, or still absent; when the call returns, every column of
\* the record is written to the one row of the nct_id.
C11_UpsertAtomic ==
    [][\A rec \in StoreRecords :
          /\ StoreUpsert(rec, TRUE) =>
                /\ ret' = "raised"
                /\ RowsOf(protocols', rec.nct_id) = RowsOf(protocols, rec.nct_id)
                /\ Len(protocols') = Len(protocols)
          /\ StoreUpsert(rec, FALSE) =>
                /\ ret' \in {"new", "updated"}
                /\ \A row \in RowsOf(protocols', rec.nct_id) :
                      /\ row.official_title = Get(rec, "official_title", NULL)
                      /\ row.indication = Get(rec, "indication", NULL)
                      /\ row.protocol_url = Get(rec, "protocol_url", NULL)
                      /\ row.protocol_pdf_path = Get(rec, "protocol_pdf_path", NULL)
                      /\ row.has_protocol_doc = Get(rec, "has_protocol_doc", FALSE)
                      /\ row.updated_at = clock]_vars

\* a call has raised at second 1 or later while both ids had a row, and
\* every row is still as it was written at second 0
C11_Witness ==
    /\ ret = "raised"
    /\ clock = 1
    /\ Len(protocols) = 2
    /\ \A i \in 1..Len(protocols) : protocols[i].updated_at = 0

-----------------------------------------------------------------------------
(* The remote registry *)

\* the studies the registry holds, served in this order (and again from the
\* first one): one with a statistical-plan document, one without documents,
\* and the first trial again under another title and without documents
Catalogue ==
    << Study(<<"N", "0", "1">>, <<"t">>,
             <<[label |-> <<"I", "C", "F">>, filename |-> <<"i">>],
               [label |-> <<"S", "A", "P">>, filename |-> <<"s">>]>>),
       Study(<<"N", "0", "2">>, <<"u">>, <<>>),
       Study(<<"N", "0", "1">>, <<"u">>, <<>>) >>

RECURSIVE Sum(_)
Sum(ns) == IF ns = <<>> THEN 0 ELSE Head(ns) + Sum(Tail(ns))

\* the page sizes of a chain: up to MaxPages pages, up to MaxStudies studies
Shapes ==
    { lens \in UNION { [1..n -> 0..MaxStudies] : n \in 1..MaxPages } :
        Sum(lens) <= MaxStudies }

\* the chain with these page sizes that starts at the given catalogue entry
ChainOf(lens, start) ==
    [k \in 1..Len(lens) |->
        [j \in 1..lens[k] |->
            Catalogue[((start - 1 + Sum(SubSeq(lens, 1, k - 1)) + j - 1)
                        % Len(Catalogue)) + 1]]]

Chains == { ChainOf(lens, start) : lens \in Shapes, start \in 1..Len(Catalogue) }

\* the continuation token that leads to page k
Token(k) == <<"token", k>>

\* the page a request asks for: the first one unless it carries a token
PageOf(page_token) == IF Truthy(page_token) THEN page_token[2] ELSE 1

\* the registry's answer to a request that succeeds
Response(chain, page_token) ==
    LET k == PageOf(page_token)
    IN  [studies       |-> chain[k],
         nextPageToken |-> IF k < Len(chain) THEN Token(k + 1) ELSE NULL,
         totalCount    |-> Sum([i \in 1..Len(chain) |-> Len(chain[i])])]

-----------------------------------------------------------------------------
(* api_client.py: search_studies and _make_request *)

\* a defect: one attempt too few
RetriesOffByOne == 3 - 1

\* _make_request(params, retries=3) and download_pdf(url, save_path, retries=3)
Retries == 3

\* a defect: the pause between attempts does not grow
BackoffConstant(attempt) == 1

\* time.sleep(2 ** attempt) after a failed attempt that is not the last
Backoff(attempt) == 2 ^ attempt

\* an optional int: None, or SomeInt(m)
SomeInt(m) == <<"int", m>>
IntTruthy(x) == x # NULL /\ x[2] # 0

\* a defect: the generator stops after its first page
ResumeFirstPageOnly(g, o, indication) ==
    IF g.pos < Len(g.studies)
    THEN [pc  |-> "body",
          gen |-> [g EXCEPT !.total_fetched = @ + 1, !.pos = @ + 1],
          obs |-> [o EXCEPT !.yielded =
                      Append(@, ParseStudy(g.studies[g.pos + 1], indication))]]
    ELSE [pc  |-> "log",
          gen |-> [g EXCEPT !.total_fetched = @ + 1, !.page_token = g.next_token],
          obs |-> [o EXCEPT !.ended = TRUE]]

\* a defect: the next page is requested at once
PageDelaySkipped(o) == o

\* time.sleep(REQUEST_DELAY) before the next page is requested
PageDelay(o) == [o EXCEPT !.page_delays = @ + 1, !.held = @ + o.conns]

\* a defect: after a page without continuation token the generator does not
\* end but waits for a page that never comes
ResumeAwaitsToken(g, o, indication) ==
    IF g.pos < Len(g.studies)
    THEN [pc  |-> "body",
          gen |-> [g EXCEPT !.total_fetched = @ + 1, !.pos = @ + 1],
          obs |-> [o EXCEPT !.yielded =
                      Append(@, ParseStudy(g.studies[g.pos + 1], indication))]]
    ELSE IF ~Truthy(g.next_token)
         THEN [pc  |-> "await",
               gen |-> [g EXCEPT !.total_fetched = @ + 1],
               obs |-> o]
         ELSE [pc  |-> "request",
               gen |-> [g EXCEPT !.total_fetched = @ + 1,
                                 !.page_token = g.next_token,
                                 !.attempt = 0],
               obs |-> PageDelay(o)]

\* a defect: the continuation token is not taken over, so the page just
\* served is requested again
ResumeSamePage(g, o, indication) ==
    IF g.pos < Len(g.studies)
    THEN [pc  |-> "body",
          gen |-> [g EXCEPT !.total_fetched = @ + 1, !.pos = @ + 1],
          obs |-> [o EXCEPT !.yielded =
                      Append(@, ParseStudy(g.studies[g.pos + 1], indication))]]
    ELSE IF ~Truthy(g.next_token)
         THEN [pc  |-> "log",
               gen |-> [g EXCEPT !.total_fetched = @ + 1],
               obs |-> [o EXCEPT !.ended = TRUE]]
         ELSE [pc  |-> "request",
               gen |-> [g EXCEPT !.total_fetched = @ + 1, !.attempt = 0],
               obs |-> o]

\* the generator is resumed after a yield: total_fetched += 1, then the next
\* study of the page is yielded, or the page is over: without a next token
\* the sequence ends, with one the generator sleeps REQUEST_DELAY and goes on
\* to request the next page
Resume(g, o, indication) ==
    IF g.pos < Len(g.studies)
    THEN [pc  |-> "body",
          gen |-> [g EXCEPT !.total_fetched = @ + 1, !.pos = @ + 1],
          obs |-> [o EXCEPT !.yielded =
                      Append(@, ParseStudy(g.studies[g.pos + 1], indication))]]
    ELSE IF ~Truthy(g.next_token)
         THEN [pc  |-> "log",
               gen |-> [g EXCEPT !.total_fetched = @ + 1,
                                 !.page_token = g.next_token],
               obs |-> [o EXCEPT !.ended = TRUE]]
         ELSE [pc  |-> "request",
               gen |-> [g EXCEPT !.total_fetched = @ + 1,
                                 !.page_token = g.next_token,
                                 !.attempt = 0],
               obs |-> PageDelay(o)]


-----------------------------------------------------------------------------
(* downloader.py: PipelineRunner.run and process_indication *)

\* the statistics process_indication starts from
NewStats(indication) ==
    [indication           |-> indication,
     studies_found        |-> 0,
     new_studies          |-> 0,
     updated_studies      |-> 0,
     protocols_downloaded |-> 0,
     download_errors      |-> 0]

\* a defect: a document that could not be retrieved is counted as retrieved
CountErrorAsDownloaded(st) == [st EXCEPT !.protocols_downloaded = @ + 1]

\* a defect: a failed download is counted once per attempt that was left
CountErrorTwice(st) == [st EXCEPT !.download_errors = @ + 2]

\* stats['download_errors'] += 1
CountError(st) == [st EXCEPT !.download_errors = @ + 1]

\* a defect: the pause is made only after a download that succeeded
DownloadDelayOnSuccess(o, ok) ==
    IF ok THEN [o EXCEPT !.dl_delays = @ + 1] ELSE o

\* time.sleep(REQUEST_DELAY) after download_pdf returned and its result was
\* recorded; ok: what download_pdf returned
DownloadDelay(o, ok) == [o EXCEPT !.dl_delays = @ + 1, !.held = @ + o.conns]

\* how the processing of a term ended, for the properties
Outcome(o) == IF o.ended /\ o.exhausted = 0 THEN "complete" ELSE "partial"

\* a defect: the exception is absorbed inside process_indication, which
\* goes on to its end
ExceptAbsorbed ==
    /\ pc' = "log"
    /\ UNCHANGED <<protocols, download_history, all_stats, frame, stats, gen, obs>>

\* a defect: a term that raises ends the whole run
ExceptAbortsRun ==
    /\ all_stats' = Append(all_stats,
                           [indication |-> stats.indication, error |-> <<"e">>])
    /\ frame' = [frame EXCEPT !.k = Len(run.indications) + 1]
    /\ obs' = [obs EXCEPT !.outcomes = Append(@, "raised")]
    /\ pc' = "run_loop"
    /\ UNCHANGED <<protocols, download_history, stats, gen>>

\* a defect: the term runs in one transaction, so what it inserted is rolled
\* back when it raises
ExceptRollsBackTerm ==
    /\ all_stats' = Append(all_stats,
                           [indication |-> stats.indication, error |-> <<"e">>])
    /\ frame' = [frame EXCEPT !.k = @ + 1]
    /\ obs' = [obs EXCEPT !.outcomes = Append(@, "raised"),
                          !.conns = ReleaseConnection(@ + 1, TRUE)]
    /\ pc' = "run_loop"
    /\ protocols' = SubSeq(protocols, 1, obs.rows_before)
    /\ UNCHANGED <<download_history, stats, gen>>

\* run's except branch: process_indication raised; the exception is recorded
\* as the term's entry and the loop goes on with the next term
Except ==
    /\ all_stats' = Append(all_stats,
                           [indication |-> stats.indication, error |-> <<"e">>])
    /\ frame' = [frame EXCEPT !.k = @ + 1]
    /\ obs' = [obs EXCEPT !.outcomes = Append(@, "raised"),
                          !.conns = ReleaseConnection(@ + 1, TRUE)]
    /\ pc' = "run_loop"
    /\ UNCHANGED <<protocols, download_history, stats, gen>>

\* the document linkage of the rows: URL, local path and has-document flag
Linkage(tbl) ==
    [i \in 1..Len(tbl) |->
        [nct_id            |-> tbl[i].nct_id,
         protocol_url      |-> tbl[i].protocol_url,
         protocol_pdf_path |-> tbl[i].protocol_pdf_path,
         has_protocol_doc  |-> tbl[i].has_protocol_doc]]

\* run's loop head with a term left: process_indication starts (the term's
\* folder is made, the statistics are zeroed, the generator is created)
BeginIndication ==
    /\ pc = "run_loop"
    /\ frame.k <= Len(run.indications)
    /\ LET indication == run.indications[frame.k]
       IN  /\ files' = files \cup {<<"protocols/">> \o SanitizeFolderName(indication)}
           /\ stats' = NewStats(indication)
    /\ frame' = [frame EXCEPT !.studies_processed = 0, !.attempt = 0]
    /\ gen' = NoGen
    /\ obs' = [NoObs EXCEPT !.rows_before = Len(protocols),
                            !.outcomes = obs.outcomes,
                            !.conns = obs.conns,
                            !.linked_before = Linkage(protocols)]
    /\ pc' = "request"
    /\ UNCHANGED <<storeVars, remote, run, all_stats>>

\* run's loop is over: the result is returned
ReturnRun ==
    /\ pc = "run_loop"
    /\ frame.k > Len(run.indications)
    /\ pc' = "done"
    /\ UNCHANGED <<storeVars, remote, files, run, frame, all_stats, stats, gen, obs>>

\* one attempt of _make_request for the page search_studies asks for
Request(ok) ==
    /\ pc = "request"
    /\ LET o == [obs EXCEPT !.requests = @ + 1,
                            !.page_attempts =
                                IF obs.page = PageOf(gen.page_token) THEN @ + 1 ELSE 1,
                            !.page = PageOf(gen.page_token),
                            !.waits = IF gen.attempt = 0 THEN <<>> ELSE @]
           data == Response(remote, gen.page_token)
       IN  IF ok
           THEN IF data.studies = <<>>
                THEN /\ pc' = "log"
                     /\ gen' = [gen EXCEPT !.attempt = 0]
                     /\ obs' = [o EXCEPT !.ended = TRUE]
                ELSE /\ pc' = "body"
                     /\ gen' = [gen EXCEPT !.attempt = 0,
                                           !.studies = data.studies,
                                           !.next_token = data.nextPageToken,
                                           !.pos = 1]
                     /\ obs' = [o EXCEPT !.yielded =
                                   Append(@, ParseStudy(data.studies[1],
                                                        stats.indication))]
           ELSE IF gen.attempt < Retries - 1
                THEN /\ pc' = "request"
                     /\ gen' = [gen EXCEPT !.attempt = @ + 1]
                     /\ obs' = [o EXCEPT !.failed = TRUE,
                                         !.waits = Append(@, Backoff(gen.attempt))]
                ELSE /\ pc' = "log"
                     /\ gen' = [gen EXCEPT !.attempt = 0]
                     /\ obs' = [o EXCEPT !.failed = TRUE,
                                         !.exhausted = PageOf(gen.page_token),
                                         !.ended = TRUE]
    /\ UNCHANGED <<storeVars, remote, files, run, frame, all_stats, stats>>

\* the body of process_indication's loop for the record just yielded, up to
\* the document download; fail: the storage engine fails in upsert_protocol
Body(fail) ==
    /\ pc = "body"
    /\ UNCHANGED <<download_history, clock, ret, remote, files, run>>
    /\ LET study_data == ParseStudy(gen.studies[gen.pos], stats.indication)
           r == UpsertProtocol(protocols, study_data, clock)
           counted == [stats EXCEPT
                         !.studies_found   = @ + 1,
                         !.new_studies     = IF r.new THEN @ + 1 ELSE @,
                         !.updated_studies = IF r.new THEN @ ELSE @ + 1]
           upserted == [obs EXCEPT !.upserted = Append(@, study_data),
                                   !.dl_gets = 0,
                                   !.dl_waits = <<>>,
                                   !.conns = ReleaseConnection(@ + 1, FALSE)]
           next == Resume(gen, upserted, stats.indication)
       IN  IF IntTruthy(run.max_studies)
              /\ frame.studies_processed >= run.max_studies[2]
           THEN /\ pc' = "log"
                /\ UNCHANGED <<protocols, frame, all_stats, stats, gen, obs>>
           ELSE IF fail \/ r.raised
           THEN Except
           ELSE /\ protocols' = r.rows
                /\ stats' = counted
                /\ all_stats' = all_stats
                /\ IF /\ run.download_pdfs
                      /\ Truthy(study_data.protocol_url)
                      /\ ~Exists(files, PdfPath(stats.indication, study_data.nct_id))
                   THEN /\ pc' = "download"
                        /\ frame' = [frame EXCEPT !.attempt = 0]
                        /\ gen' = gen
                        /\ obs' = [upserted EXCEPT !.dl_calls = @ + 1]
                   ELSE /\ pc' = next.pc
                        /\ frame' = [frame EXCEPT !.studies_processed = @ + 1]
                        /\ gen' = next.gen
                        /\ obs' = next.obs

\* one attempt of download_pdf for the record's document, and what follows
\* it in the loop body. how: the GET succeeds and the file is written
\* ("ok"), it fails before the file is opened ("connect"), or while the body
\* is streamed into the file ("stream"); fail: the storage engine fails in
\* update_pdf_path
Download(how, fail) ==
    /\ pc = "download"
    /\ UNCHANGED <<download_history, clock, ret, remote, run>>
    /\ LET study_data == ParseStudy(gen.studies[gen.pos], stats.indication)
           pdf_path == PdfPath(stats.indication, study_data.nct_id)
           got == [obs EXCEPT !.dl_gets = @ + 1]
           next == Resume(gen,
                          DownloadDelay(
                              [got EXCEPT
                                 !.conns = ReleaseConnection(@ + 1, FALSE),
                                 !.dl_ok = Append(@, study_data.nct_id),
                                 !.path_calls = Append(@, study_data.nct_id)],
                              TRUE),
                          stats.indication)
           skipped == Resume(gen, DownloadDelay([got EXCEPT !.dl_exhausted = @ + 1],
                                                FALSE),
                             stats.indication)
       IN  /\ files' = IF how = "connect" THEN files ELSE files \cup {pdf_path}
           /\ IF how = "ok"
              THEN IF fail
                   THEN Except
                   ELSE /\ protocols' = UpdatePdfPath(protocols, study_data.nct_id,
                                                      pdf_path, clock)
                        /\ stats' = [stats EXCEPT !.protocols_downloaded = @ + 1]
                        /\ frame' = [frame EXCEPT !.studies_processed = @ + 1,
                                                  !.attempt = 0]
                        /\ pc' = next.pc
                        /\ gen' = next.gen
                        /\ obs' = next.obs
                        /\ all_stats' = all_stats
              ELSE /\ ~fail
                   /\ IF frame.attempt < Retries - 1
                      THEN /\ frame' = [frame EXCEPT !.attempt = @ + 1]
                           /\ obs' = [got EXCEPT !.dl_waits =
                                         Append(@, Backoff(frame.attempt))]
                           /\ UNCHANGED <<protocols, pc, all_stats, stats, gen>>
                      ELSE /\ stats' = CountError(stats)
                           /\ frame' = [frame EXCEPT !.studies_processed = @ + 1,
                                                     !.attempt = 0]
                           /\ pc' = skipped.pc
                           /\ gen' = skipped.gen
                           /\ obs' = skipped.obs
                           /\ UNCHANGED <<protocols, all_stats>>

\* the end of process_indication: the run is logged and the statistics are
\* returned to run, which appends them; fail: the storage engine fails in
\* log_download
Log(fail) ==
    /\ pc = "log"
    /\ UNCHANGED <<clock, ret, remote, files, run>>
    /\ IF fail
       THEN Except
       ELSE /\ download_history' =
                   InsertHistory(download_history,
                                 HistoryRow(download_history, stats.indication,
                                            stats.studies_found,
                                            stats.protocols_downloaded,
                                            stats.new_studies, stats.updated_studies,
                                            <<"completed">>, clock))
            /\ all_stats' = Append(all_stats, stats)
            /\ frame' = [frame EXCEPT !.k = @ + 1]
            /\ obs' = [obs EXCEPT !.outcomes = Append(@, Outcome(obs)),
                                  !.conns = ReleaseConnection(@ + 1, FALSE)]
            /\ pc' = "run_loop"
            /\ UNCHANGED <<protocols, stats, gen>>

\* the term lists run may be given
TermLists == UNION { [1..n -> Terms] : n \in 1..MaxTerms }

\* PipelineRunner.run has been called on an empty store
InitRun(chains, lists, downloads, caps) ==
    /\ protocols = <<>>
    /\ download_history = <<>>
    /\ clock = 0
    /\ ret = NoCall
    /\ remote \in chains
    /\ files = {}
    /\ pc = "run_loop"
    /\ run \in [indications : lists, download_pdfs : downloads, max_studies : caps]
    /\ frame = [NoFrame EXCEPT !.k = 1]
    /\ all_stats = <<>>
    /\ stats = NoStats
    /\ gen = NoGen
    /\ obs = NoObs

\* a step of the pipeline (time stands still while it runs: no property
\* stated under these specifications reads a timestamp)
Next ==
    \/ BeginIndication
    \/ ReturnRun
    \/ \E ok \in BOOLEAN : Request(ok)
    \/ \E fail \in BOOLEAN : Body(fail)
    \/ \E how \in {"ok", "connect", "stream"}, fail \in BOOLEAN : Download(how, fail)
    \/ \E fail \in BOOLEAN : Log(fail)

\* one term, any chain
Init == InitRun(Chains, { <<i>> : i \in Terms }, BOOLEAN, {NULL, SomeInt(1)})
Spec == Init /\ [][Next]_vars

\* one term, a chain of pages of at most one study each. The run is one
\* sequential thread whose every request, sleep and store call returns: a
\* step that is possible is taken
ShortPageChains == { c \in Chains : \A k \in 1..Len(c) : Len(c[k]) <= 1 }
InitLive == InitRun(ShortPageChains, { << <<"a">> >> }, BOOLEAN, {NULL})

\* the fairness is weak fairness of Next, whose disjuncts are written out
\* with the failing alternative of each step first: one enabled alternative
\* settles ENABLED, and the failing one is the shortest to evaluate
SpecLive ==
    /\ InitLive
    /\ [][Next]_vars
    /\ WF_vars(\/ BeginIndication
               \/ ReturnRun
               \/ \E ok \in BOOLEAN : Request(ok)
               \/ \E ok \in BOOLEAN : Body(~ok)
               \/ \E how \in {"ok", "connect", "stream"}, ok \in BOOLEAN :
                      Download(how, ~ok)
               \/ \E ok \in BOOLEAN : Log(~ok))

\* several terms, a chain of pages of one study each
SinglesChains == { c \in Chains : \A k \in 1..Len(c) : Len(c[k]) = 1 }
InitTerms == InitRun(SinglesChains, TermLists, BOOLEAN, {NULL})
SpecTerms == InitTerms /\ [][Next]_vars

\* the folder of the term "a" as an earlier invocation that downloaded the
\* document of the first trial has left it
OldFiles == { <<"protocols/">> \o SanitizeFolderName(<<"a">>),
              PdfPath(<<"a">>, Catalogue[1].nctId) }

\* PipelineRunner.run has been called with document retrieval enabled, on an
\* empty store, over a directory that is empty or as an earlier invocation
\* left it
InitRerun ==
    /\ protocols = <<>>
    /\ download_history = <<>>
    /\ clock = 0
    /\ ret = NoCall
    /\ remote \in Chains
    /\ files \in {{}, OldFiles}
    /\ pc = "run_loop"
    /\ run \in [indications : { <<i>> : i \in Terms }, download_pdfs : {TRUE},
                 max_studies : {NULL}]
    /\ frame = [NoFrame EXCEPT !.k = 1]
    /\ all_stats = <<>>
    /\ stats = NoStats
    /\ gen = NoGen
    /\ obs = NoObs

\* one term, any chain, over an old directory
SpecRerun == InitRerun /\ [][Next]_vars

-----------------------------------------------------------------------------
(* downloader.py: download_missing_pdfs *)

\* `if not url: continue`: the first entry from k on that has a URL, or the
\* position after the list
RECURSIVE NextWithUrl(_, _)
NextWithUrl(list, k) ==
    IF k > Len(list) THEN k
    ELSE IF Truthy(list[k].protocol_url) THEN k
    ELSE NextWithUrl(list, k + 1)

\* the statistics download_missing_pdfs starts from
SweepStats(list) == [total |-> Len(list), downloaded |-> 0, errors |-> 0]

\* the for loop of download_missing_pdfs goes on with entry k of its list, for
\* which download_pdf is called, or it is over and the statistics are
\* returned
SweepOn(list, k, o) ==
    IF k <= Len(list)
    THEN /\ pc' = "sweep"
         /\ frame' = [k |-> k, studies_processed |-> 0, attempt |-> 0,
                      protocols |-> list]
         /\ obs' = [o EXCEPT !.dl_calls = @ + 1, !.dl_gets = 0, !.dl_waits = <<>>]
         /\ ret' = ret
    ELSE /\ pc' = "idle"
         /\ frame' = NoFrame
         /\ obs' = [NoObs EXCEPT !.conns = o.conns, !.held = o.held]
         /\ ret' = "swept"

\* download_missing_pdfs(indication) is called: the rows without a document
\* are read and the loop is entered
BeginSweep(indication) ==
    /\ pc \in {"idle", "done"}
    /\ LET list == GetProtocolsWithoutPdf(protocols, indication)
       IN  /\ stats' = SweepStats(list)
           /\ SweepOn(list, NextWithUrl(list, 1),
                      [NoObs EXCEPT !.conns =
                          ReleaseConnection(obs.conns + 1, FALSE)])
    /\ UNCHANGED <<protocols, download_history, clock, remote, files, run,
                   all_stats, gen>>

\* one attempt of download_pdf for the current entry of the list, and what
\* follows it in the loop body; how and fail are as in Download
SweepDownload(how, fail) ==
    /\ pc = "sweep"
    /\ UNCHANGED <<download_history, clock, remote, run, all_stats, gen>>
    /\ LET list == frame.protocols
           row == list[frame.k]
           pdf_path == PdfPath(row.indication, row.nct_id)
           folder == <<"protocols/">> \o SanitizeFolderName(row.indication)
           got == [obs EXCEPT !.dl_gets = @ + 1]
           k == NextWithUrl(list, frame.k + 1)
       IN  /\ files' = IF how = "connect" THEN files \cup {folder}
                       ELSE files \cup {folder, pdf_path}
           /\ IF how = "ok"
              THEN IF fail
                   THEN /\ pc' = "idle"
                        /\ ret' = "raised"
                        /\ frame' = NoFrame
                        /\ stats' = NoStats
                        /\ obs' = [NoObs EXCEPT !.conns =
                                      ReleaseConnection(obs.conns + 1, TRUE)]
                        /\ protocols' = protocols
                   ELSE /\ protocols' = UpdatePdfPath(protocols, row.nct_id,
                                                      pdf_path, clock)
                        /\ stats' = [stats EXCEPT !.downloaded = @ + 1]
                        /\ SweepOn(list, k,
                                   DownloadDelay([got EXCEPT !.conns =
                                       ReleaseConnection(@ + 1, FALSE)], TRUE))
              ELSE /\ ~fail
                   /\ protocols' = protocols
                   /\ IF frame.attempt < Retries - 1
                      THEN /\ frame' = [frame EXCEPT !.attempt = @ + 1]
                           /\ obs' = [got EXCEPT !.dl_waits =
                                         Append(@, Backoff(frame.attempt))]
                           /\ UNCHANGED <<pc, ret, stats>>
                      ELSE /\ stats' = [stats EXCEPT !.errors = @ + 1]
                           /\ SweepOn(list, k, DownloadDelay(got, FALSE))

SweepCall == \E indication \in {NULL} \cup Terms : BeginSweep(indication)
SweepStep ==
    \E how \in {"ok", "connect", "stream"}, fail \in BOOLEAN : SweepDownload(how, fail)

\* the store under upsert_protocol calls of any caller and backfill sweeps
UpsertCall == \E rec \in ParsedRecords \cup RawRecords : StoreUpsert(rec, FALSE)
NextSweep == UpsertCall \/ SweepCall \/ SweepStep
SpecSweep == InitStore /\ [][NextSweep]_vars

\* chains whose two trials both have a protocol document, on one page and
\* on two
Documented ==
    << Catalogue[1],
       Study(<<"N", "0", "2">>, <<"u">>,
             <<[label |-> <<"P", "r", "o", "t", "o", "c", "o", "l">>,
                filename |-> <<"p">>]>>) >>
DocChains == { << Documented >>, << <<Documented[1]>>, <<Documented[2]>> >> }

\* a run over one term, followed by backfill sweeps
InitBackfill ==
    InitRun(Chains \cup DocChains, { <<i>> : i \in Terms }, BOOLEAN, {NULL})
NextBackfill == Next \/ SweepCall \/ SweepStep
SpecBackfill == InitBackfill /\ [][NextBackfill]_vars

\* a dictionary that has the key with one of the values, or lacks it
Opt(key, values) == { EmptyDict } \cup { key :> v : v \in values }

\* start dates the registry may serve: a year, a year and month, a word, a
\* month that is none, and numbers of nine and of ten digits
StartDates ==
    { <<"2", "0", "2", "0">>,
      <<"2", "0", "2", "0", "-", "0", "1">>,
      <<"2", "0", "2", "0", "-", "1", "3">>,
      <<"x">>,
      <<"9", "9", "9", "9", "9", "9", "9", "9", "9">>,
      <<"9", "9", "9", "9", "9", "9", "9", "9", "9", "9">> }

\* payloads in which any section or field may be absent
IdModules ==
    { a @@ b : a \in Opt("nctId", {<<"N", "0", "1">>}),
               b \in Opt("officialTitle", {<<"t">>}) }
StatusModules ==
    Opt("startDateStruct", Opt("date", StartDates \cup {Empty}))
ProtocolSections ==
    { a @@ b : a \in Opt("identificationModule", IdModules),
               b \in Opt("statusModule", StatusModules) }
DocLists ==
    { <<>>,
      <<[label |-> <<"S", "A", "P">>, filename |-> <<"s">>]>>,
      <<[label |-> <<"S", "A", "P">>]>>,
      <<[filename |-> <<"s">>]>> }
DocumentSections ==
    Opt("documentSection", Opt("largeDocumentModule", Opt("largeDocs", DocLists)))
Payloads ==
    { a @@ b : a \in Opt("protocolSection", ProtocolSections),
               b \in DocumentSections }

\* process_indication's loop asks search_studies for its next record, which
\* the generator makes from the payload with _parse_study: the record is
\* yielded, or the exception leaves the generator and process_indication and
\* is recorded by run as the term's entry
YieldParsed ==
    /\ pc = "parse"
    /\ LET r == ParseStudyData(remote[1][1], stats.indication)
       IN  IF r.raised = "none"
           THEN /\ pc' = "body"
                /\ obs' = [obs EXCEPT !.yielded = Append(@, r.value)]
                /\ all_stats' = all_stats
           ELSE /\ pc' = "run_loop"
                /\ obs' = [obs EXCEPT !.outcomes = Append(@, "raised")]
                /\ all_stats' = Append(all_stats, [indication |-> stats.indication,
                                                   error |-> <<r.raised>>])
    /\ UNCHANGED <<storeVars, remote, files, run, frame, stats, gen>>

\* the first page of a term has been fetched: one payload
InitParse ==
    /\ protocols = <<>>
    /\ download_history = <<>>
    /\ clock = 0
    /\ ret = NoCall
    /\ remote \in { << <<p>> >> : p \in Payloads }
    /\ files = {}
    /\ pc = "parse"
    /\ run = [NoRun EXCEPT !.indications = << <<"a">> >>]
    /\ frame = [NoFrame EXCEPT !.k = 1]
    /\ all_stats = <<>>
    /\ stats = NewStats(<<"a">>)
    /\ gen = NoGen
    /\ obs = NoObs
SpecParse == InitParse /\ [][YieldParsed]_vars

\* one term, any chain, under a maximum-record cap
InitCapped ==
    InitRun(Chains, { <<i>> : i \in Terms }, BOOLEAN,
            {SomeInt(0), SomeInt(1), SomeInt(2)})
SpecCapped == InitCapped /\ [][Next]_vars


-----------------------------------------------------------------------------
(* Properties of the fetch client and of the pipeline *)

\* the records of pages 1..upto of the chain, in page order and, within a
\* page, in the page's order
RecordsOfPages(chain, indication, upto) ==
    Flatten([k \in 1..upto |->
                [j \in 1..Len(chain[k]) |-> ParseStudy(chain[k][j], indication)]])

IsPrefix(a, b) == Len(a) <= Len(b) /\ a = SubSeq(b, 1, Len(a))

\* C5: when the remote serves a chain of N non-empty pages and no request
\* fails, a search_studies call yields every item of every page exactly
\* once, in page order and in within-page order, and ends right after the
\* page without a continuation token, having issued exactly N requests.
C5_PaginationComplete ==
    ( /\ \A k \in 1..Len(remote) : remote[k] # <<>>
      /\ ~obs.failed )
    => LET all == RecordsOfPages(remote, stats.indication, Len(remote))
       IN  /\ IsPrefix(obs.yielded, all)
           /\ obs.ended => /\ obs.yielded = all
                           /\ obs.requests = Len(remote)

\* a chain of a page of two studies and a page of one has been drained by
\* two requests
C5_Witness ==
    /\ Len(remote) = 2
    /\ Len(remote[1]) = 2
    /\ Len(remote[2]) = 1
    /\ ~obs.failed
    /\ obs.ended
    /\ obs.requests = 2
    /\ Len(obs.yielded) = 3

\* C6: if the request for page k fails on every one of its 3 attempts, the
\* sequence ends without raising, the records yielded are exactly those of
\* pages 1..k-1, and no request for a later page is issued.
C6_RetryExhaustion ==
    /\ [](obs.exhausted > 0 =>
            /\ obs.ended
            /\ pc \in {"log", "run_loop", "done"}
            /\ obs.page = obs.exhausted
            /\ obs.page_attempts = 3
            /\ obs.yielded = RecordsOfPages(remote, stats.indication,
                                            obs.exhausted - 1))
    /\ [][(obs.exhausted = 0 /\ obs'.exhausted > 0) =>
            (pc' = "log" /\ all_stats' = all_stats)]_vars

\* the three attempts for page 2 have failed after page 1 was yielded
C6_Witness ==
    /\ obs.exhausted = 2
    /\ obs.page_attempts = 3
    /\ Len(obs.yielded) = 2
    /\ pc = "log"

\* the entries of all_stats that are statistics, in order
Successes(entries) == SelectSeq(entries, LAMBDA e : "error" \notin DOMAIN e)

\* C7: the result of PipelineRunner.run has exactly one entry per term, in
\* list order: an error entry for each term whose processing raised, the
\* statistics of process_indication for every other term; terms after a
\* failing term are still processed.
C7_PartialFailureIsolation ==
    /\ Len(all_stats) = Len(obs.outcomes)
    /\ Len(all_stats) <= Len(run.indications)
    /\ pc = "done" => Len(all_stats) = Len(run.indications)
    /\ \A k \in 1..Len(all_stats) :
          /\ all_stats[k].indication = run.indications[k]
          /\ "error" \in DOMAIN all_stats[k] <=> obs.outcomes[k] = "raised"
          /\ "error" \notin DOMAIN all_stats[k] <=> "studies_found" \in DOMAIN all_stats[k]
    /\ LET done == Successes(all_stats)
       IN  /\ Len(done) = Len(download_history)
           /\ \A k \in 1..Len(done) :
                 /\ done[k].indication = download_history[k].indication
                 /\ done[k].studies_found = download_history[k].studies_found
                 /\ done[k].new_studies = download_history[k].new_studies

\* the first of two terms raised and the second was processed to its end
C7_Witness ==
    /\ pc = "done"
    /\ Len(run.indications) = 2
    /\ obs.outcomes = <<"raised", "complete">>
    /\ "error" \in DOMAIN all_stats[1]
    /\ all_stats[2].studies_found = 2

\* C9: from an empty store, processing one term whose remote data is two
\* pages of one record each (distinct ids, no failures) ends with exactly 2
\* rows in protocols and exactly one download_history entry, with
\* studies_found = 2 and new_studies = 2.
C9_TwoPagesOfOne ==
    ( /\ pc = "done"
      /\ Len(remote) = 2
      /\ Len(remote[1]) = 1
      /\ Len(remote[2]) = 1
      /\ remote[1][1].nctId # remote[2][1].nctId
      /\ obs.outcomes = <<"complete">> )
    => /\ Len(protocols) = 2
       /\ Len(download_history) = 1
       /\ download_history[1].studies_found = 2
       /\ download_history[1].new_studies = 2

\* such a run has ended, and the document of one of the two was downloaded
C9_Witness ==
    /\ pc = "done"
    /\ Len(remote) = 2
    /\ Len(remote[1]) = 1
    /\ Len(remote[2]) = 1
    /\ remote[1][1].nctId # remote[2][1].nctId
    /\ obs.outcomes = <<"complete">>
    /\ Len(protocols) = 2
    /\ download_history[1].protocols_downloaded = 1

\* C10: processing the same term a second time against identical remote
\* data reports new_studies = 0 and updated_studies = the number of records,
\* and leaves the row count of protocols unchanged.
C10_SecondRunUpdatesOnly ==
    LET n == Len(all_stats)
    IN  ( /\ pc \in {"run_loop", "done"}
          /\ n >= 2
          /\ obs.outcomes[n] = "complete"
          /\ \E j \in 1..(n - 1) :
                /\ run.indications[j] = run.indications[n]
                /\ obs.outcomes[j] = "complete" )
        => /\ all_stats[n].new_studies = 0
           /\ all_stats[n].updated_studies = Len(obs.yielded)
           /\ Len(obs.yielded) = Sum([k \in 1..Len(remote) |-> Len(remote[k])])
           /\ download_history[Len(download_history)].new_studies = 0
           /\ Len(protocols) = obs.rows_before

\* the term was processed twice, each time to the end of the two pages
C10_Witness ==
    /\ pc = "done"
    /\ Len(run.indications) = 2
    /\ run.indications[1] = run.indications[2]
    /\ obs.outcomes = <<"complete", "complete">>
    /\ all_stats[1].new_studies = 2
    /\ all_stats[2].updated_studies = 2
    /\ Len(protocols) = 2

\* `if max_studies and studies_processed >= max_studies`
CapReached ==
    IntTruthy(run.max_studies) /\ frame.studies_processed >= run.max_studies[2]

\* C12: a persistence failure raised by upsert_protocol or by log_download
\* during process_indication is not absorbed at the record level: it leaves
\* process_indication at once, without a history entry and without a
\* statistics entry, and PipelineRunner.run reports the term as failed.
C12_PersistenceFailurePropagates ==
    [][((Body(TRUE) /\ ~CapReached) \/ Log(TRUE)) =>
          /\ all_stats' = Append(all_stats,
                                 [indication |-> run.indications[frame.k],
                                  error      |-> <<"e">>])
          /\ pc' = "run_loop"
          /\ frame'.k = frame.k + 1
          /\ stats' = stats
          /\ protocols' = protocols
          /\ download_history' = download_history]_vars

\* the upsert of the second record raised: the run is over, its only term is
\* reported as failed, the first record is stored and nothing was logged
C12_Witness ==
    /\ pc = "done"
    /\ ~run.download_pdfs
    /\ obs.outcomes = <<"raised">>
    /\ ~obs.ended
    /\ Len(obs.yielded) = 2
    /\ Len(obs.upserted) = 1
    /\ Len(protocols) = 1
    /\ download_history = <<>>
    /\ "error" \in DOMAIN all_stats[1]

\* C13: when the retrieval of a record's document fails on all of its
\* attempts (never more than 3 GETs, with a pause of 1 and then 2 seconds
\* between them), process_indication adds exactly one to download_errors,
\* records no local path for the record and goes on with the next record the
\* fetch sequence yields; the term is not reported as failed, and when its
\* processing ends the history entry is logged.
C13_DownloadExhaustion ==
    /\ [](/\ obs.dl_gets <= 3
          /\ (/\ pc \in {"run_loop", "done"}
              /\ obs.dl_exhausted > 0
              /\ obs.outcomes # <<>>
              /\ obs.outcomes[Len(obs.outcomes)] # "raised")
             => /\ all_stats[Len(all_stats)].download_errors = obs.dl_exhausted
                /\ download_history # <<>>
                /\ download_history[Len(download_history)].indication
                      = stats.indication)
    /\ [][(/\ obs.dl_gets = 2
           /\ \E how \in {"connect", "stream"} : Download(how, FALSE))
          => LET rec  == ParseStudy(gen.studies[gen.pos], stats.indication)
                 more == \/ gen.pos < Len(gen.studies)
                         \/ Truthy(gen.next_token)
             IN  /\ obs'.dl_gets = 3
                 /\ obs'.dl_waits = <<1, 2>>
                 /\ stats'.download_errors = stats.download_errors + 1
                 /\ stats'.protocols_downloaded = stats.protocols_downloaded
                 /\ protocols' = protocols
                 /\ \A row \in RowsOf(protocols', rec.nct_id) :
                       row.protocol_pdf_path = NULL
                 /\ all_stats' = all_stats
                 /\ pc' = IF gen.pos < Len(gen.studies) THEN "body"
                          ELSE IF Truthy(gen.next_token) THEN "request"
                          ELSE "log"
                 /\ gen.pos < Len(gen.studies) =>
                       obs'.yielded =
                           Append(obs.yielded,
                                  ParseStudy(gen.studies[gen.pos + 1],
                                             stats.indication))]_vars

\* the three GETs for the first record's document failed, the second record
\* was then upserted, and the run ended with its history entry logged
C13_Witness ==
    /\ pc = "done"
    /\ obs.outcomes = <<"complete">>
    /\ obs.dl_exhausted = 1
    /\ Len(obs.upserted) = 2
    /\ Truthy(obs.upserted[1].protocol_url)
    /\ all_stats[1].download_errors = 1
    /\ all_stats[1].studies_found = 2
    /\ protocols[1].protocol_pdf_path = NULL
    /\ Len(download_history) = 1

\* C14: every PipelineRunner.run over a term list appends exactly one
\* download_history entry per term of the list, whatever the outcome of
\* processing that term: when the run is over the history holds one entry
\* for each term, in list order.
C14_OneEntryPerTerm ==
    pc = "done" =>
        /\ Len(download_history) = Len(run.indications)
        /\ \A k \in 1..Len(download_history) :
              download_history[k].indication = run.indications[k]

C16_RetryBackoff ==
    /\ [](/\ obs.page_attempts <= 3
          /\ IsPrefix(obs.waits, <<1, 2>>)
          /\ Len(obs.waits) =
                IF pc = "request" /\ gen.attempt > 0 THEN obs.page_attempts
                ELSE IF obs.page_attempts = 0 THEN 0
                ELSE obs.page_attempts - 1
          /\ pc = "request" =>
                IF PageOf(gen.page_token) = obs.page
                THEN gen.attempt = obs.page_attempts
                ELSE gen.attempt = 0
          /\ obs.exhausted > 0 => obs.page_attempts = 3)
    /\ [][/\ Request(TRUE) =>
                /\ pc' # "request"
                /\ obs'.waits = IF gen.attempt = 0 THEN <<>> ELSE obs.waits
          /\ (Request(FALSE) /\ gen.attempt = 0) =>
                pc' = "request" /\ obs'.waits = <<1>>
          /\ (Request(FALSE) /\ gen.attempt = 1) =>
                pc' = "request" /\ obs'.waits = <<1, 2>>
          /\ (Request(FALSE) /\ gen.attempt = 2) =>
                pc' = "log" /\ obs'.waits = obs.waits]_vars

\* page 1 was served at the second attempt, and then the three attempts for
\* page 2 failed, with waits of 1 and 2 seconds between them
C16_Witness ==
    /\ obs.requests = 5
    /\ obs.exhausted = 2
    /\ obs.page_attempts = 3
    /\ obs.waits = <<1, 2>>
    /\ pc = "log"

\* C17: every process_indication run that meets only transient errors (a
\* page fetch that exhausts its retries, a document retrieval that exhausts
\* its retries, or both, and no persistence failure) completes and returns
\* statistics in which an error counter is not zero; download_errors is the
\* only error counter of the statistics.
C17_TransientErrorsCounted ==
    ( /\ pc \in {"run_loop", "done"}
      /\ obs.outcomes # <<>>
      /\ obs.outcomes[Len(obs.outcomes)] # "raised"
      /\ (obs.exhausted > 0 \/ obs.dl_exhausted > 0) )
    => /\ "error" \notin DOMAIN all_stats[Len(all_stats)]
       /\ all_stats[Len(all_stats)].download_errors > 0

\* C18: when document retrieval is enabled, a yielded record has a document
\* URL and a file already exists at {nct_id}_protocol.pdf in the term's
\* directory, process_indication issues no download request for the record,
\* counts it neither as downloaded nor as an error, and inserts no
\* rate-limit delay for it.
C18_ExistingFileSkipped ==
    [][LET rec == ParseStudy(gen.studies[gen.pos], stats.indication)
       IN  ( /\ pc = "body"
             /\ Body(FALSE)
             /\ ~CapReached
             /\ run.download_pdfs
             /\ Truthy(rec.protocol_url)
             /\ PdfPath(stats.indication, rec.nct_id) \in files )
           => /\ pc' # "download"
              /\ obs'.upserted = Append(obs.upserted, rec)
              /\ obs'.dl_gets = 0
              /\ obs'.dl_delays = obs.dl_delays
              /\ stats'.protocols_downloaded = stats.protocols_downloaded
              /\ stats'.download_errors = stats.download_errors
              /\ stats'.studies_found = stats.studies_found + 1
              /\ frame'.studies_processed = frame.studies_processed + 1
              /\ files' = files]_vars

\* the record with a document URL was processed over a directory that held
\* its file: the run is over without a download request, a download, an
\* error or a rate-limit delay
C18_Witness ==
    /\ pc = "done"
    /\ run.download_pdfs
    /\ obs.outcomes = <<"complete">>
    /\ obs.upserted # <<>>
    /\ Truthy(obs.upserted[1].protocol_url)
    /\ PdfPath(stats.indication, obs.upserted[1].nct_id) \in files
    /\ obs.dl_gets = 0
    /\ obs.dl_delays = 0
    /\ all_stats[1].studies_found = 2
    /\ all_stats[1].protocols_downloaded = 0
    /\ all_stats[1].download_errors = 0

\* C19: when a maximum-record cap M is supplied to process_indication (any
\* integer M >= 0), at most M records are upserted in the run and the
\* studies_found it reports is at most M, however many records the fetch
\* sequence could yield.
C19_CapBounds ==
    run.max_studies # NULL =>
        /\ Len(obs.upserted) <= run.max_studies[2]
        /\ \A k \in 1..Len(all_stats) :
              "studies_found" \in DOMAIN all_stats[k] =>
                  all_stats[k].studies_found <= run.max_studies[2]
        /\ \A k \in 1..Len(download_history) :
              download_history[k].studies_found <= run.max_studies[2]

\* C20: download_history is append-only: whatever operation is done, every
\* entry written before is still there afterwards, at its place and with
\* all its fields unchanged, and the sequence of entries only grows at its
\* end.
C20_HistoryAppendOnly ==
    [][/\ IsPrefix(download_history, download_history')
       /\ Len(download_history') <= Len(download_history) + 1]_vars

\* the same term was processed twice with different results: the entry of
\* the first processing is still the first entry, followed by the entry of
\* the second
C20_Witness ==
    /\ pc = "done"
    /\ Len(download_history) = 2
    /\ download_history[1].id = 1
    /\ download_history[2].id = 2
    /\ download_history[1].indication = download_history[2].indication
    /\ download_history[1].new_studies = 2
    /\ download_history[2].new_studies = 0
    /\ all_stats[1].new_studies = 2

\* the ids that have a row
StoredIds(tbl) == { tbl[i].nct_id : i \in 1..Len(tbl) }

\* C21: no core operation deletes a trial row: whatever upsert_protocol
\* call, update_pdf_path call or backfill sweep is done, every nct_id that
\* had a row before still has one afterwards, and the row count does not
\* decrease.
C21_NoRowDeleted ==
    [][/\ StoredIds(protocols) \subseteq StoredIds(protocols')
       /\ Len(protocols') >= Len(protocols)]_vars

\* two trials are stored, and a sweep over both has returned after it
\* downloaded the document of one and failed on the other
C21_Witness ==
    /\ ret = "swept"
    /\ Len(protocols) = 2
    /\ stats.total = 2
    /\ stats.downloaded = 1
    /\ stats.errors = 1

\* C22: within one search_studies call there is one REQUEST_DELAY sleep
\* between two consecutive successful page fetches: when the request for
\* page k is about to be issued (whatever attempt), k - 1 delays have been
\* slept, and once page k has been fetched the count stays at k - 1 until
\* the next page is due, so none follows the last page.
C22_PageDelay ==
    /\ pc = "request" => obs.page_delays = PageOf(gen.page_token) - 1
    /\ pc # "request" /\ obs.page >= 1 => obs.page_delays = obs.page - 1

\* a term has been processed to the end of a chain of two pages, with one
\* delay slept
C22_Witness ==
    /\ pc = "done"
    /\ obs.outcomes = <<"complete">>
    /\ obs.page = 2
    /\ obs.page_delays = 1

\* C23: in process_indication and in download_missing_pdfs a REQUEST_DELAY
\* sleep lies between two consecutive download_pdf calls, whether the
\* earlier call succeeded or failed: while the n-th call of a term or of a
\* sweep is in progress n - 1 delays have been slept, and when the loop goes
\* on after a call there are as many delays as calls.
C23_DownloadDelay ==
    /\ pc \in {"download", "sweep"} => obs.dl_delays = obs.dl_calls - 1
    /\ pc \in {"request", "body", "log"} => obs.dl_delays = obs.dl_calls

\* a term was processed in which both downloads failed for good, and a
\* sweep is at its second download after its first one failed for good
C23_Witness ==
    /\ pc = "sweep"
    /\ obs.dl_calls = 2
    /\ obs.dl_delays = 1
    /\ stats.errors = 1
    /\ Len(all_stats) = 1
    /\ Get(all_stats[1], "download_errors", 0) = 2

\* C24: while a page fetch, a document download or a backoff sleep is in
\* progress (the run is at a request or at a download of a term or of a
\* sweep) no database connection is open, and none was open during any
\* REQUEST_DELAY sleep: every store operation has closed its connection
\* before it returned, on the path that commits and on the path that rolls
\* back and raises.
C24_NoConnectionHeld ==
    /\ pc \in {"request", "download", "sweep"} => obs.conns = 0
    /\ obs.held = 0

\* a term has raised out of a store operation that rolled back, and the
\* sweep that follows it is at a download
C24_Witness ==
    /\ pc = "sweep"
    /\ Len(all_stats) = 1
    /\ "error" \in DOMAIN all_stats[1]
    /\ obs.dl_gets = 1

\* C25: over a finite chain, whatever requests fail, a search_studies call
\* issues finitely many requests (at most three per page of the chain) and
\* process_indication eventually returns to run, which eventually ends; the
\* sequence has then ended unless the loop left it early (cap, exception),
\* and a term that did not raise has logged its history entry.
C25_Terminates ==
    /\ [](obs.requests <= 3 * Len(remote))
    /\ <>(pc = "done")
    /\ [](pc = "done" =>
            /\ obs.outcomes # <<"raised">> => Len(download_history) = 1
            /\ obs.outcomes # <<"raised">> /\ run.max_studies = NULL => obs.ended)

\* a run over a chain of two pages has ended after the full three attempts
\* for either page, and its term has logged its entry
C25_Witness ==
    /\ pc = "done"
    /\ Len(remote) = 2
    /\ obs.requests = 6
    /\ obs.outcomes = <<"partial">>
    /\ Len(download_history) = 1

\* C26: when download_missing_pdfs returns, every row of the
\* missing-documents set it read was counted once, as downloaded or as an
\* error (total = downloaded + errors), and if there was no error every row
\* it read has its local path recorded and no row is left in the
\* missing-documents set of the scope.
C26_SweepCountsEveryRow ==
    [][pc' = "idle" /\ ret' = "swept" =>
          /\ stats'.total = stats'.downloaded + stats'.errors
          /\ pc = "sweep" /\ stats'.errors = 0 =>
                \A i \in 1..Len(frame.protocols) :
                   LET row == frame.protocols[i]
                   IN  /\ \A r \in RowsOf(protocols', row.nct_id) :
                              r.protocol_pdf_path = PdfPath(row.indication, row.nct_id)
                       /\ GetProtocolsWithoutPdf(protocols', row.indication) = <<>>]_vars

\* the start date of the payload served
StartDateOf(study_data) ==
    Get(Get(Get(Get(study_data, "protocolSection", EmptyDict),
                "statusModule", EmptyDict),
            "startDateStruct", EmptyDict),
        "date", Empty)

\* C27: for a payload in which any sections or fields are absent, or whose
\* start date is unparseable, _parse_study returns a record and never
\* raises: the term is not failed by the record, an absent id or title is
\* the empty string, and the year is unset when the start date is absent or
\* is not a date.
C27_ParseNeverRaises ==
    pc # "parse" =>
       /\ pc = "body"
       /\ all_stats = <<>>
       /\ LET rec == obs.yielded[1]
              study_data == remote[1][1]
          IN  /\ "protocolSection" \notin DOMAIN study_data =>
                    rec.nct_id = Empty /\ rec.official_title = Empty
              /\ StartDateOf(study_data)
                    \notin { <<"2", "0", "2", "0">>,
                             <<"2", "0", "2", "0", "-", "0", "1">> }
                    => rec.year = NULL
              /\ "documentSection" \notin DOMAIN study_data =>
                    rec.protocol_url = NULL

\* C28: when a term is processed a second time against the same remote
\* data, with document retrieval enabled, after a first run that left every
\* row that has a document URL with its local path recorded, the second run
\* changes no row's local path or has-document flag, and no row is in the
\* missing-documents set afterwards.
C28_RerunKeepsLinkage ==
    /\ pc = "done"
    /\ Len(run.indications) = 2
    /\ run.indications[1] = run.indications[2]
    /\ run.download_pdfs
    /\ obs.outcomes = <<"complete", "complete">>
    /\ \A i \in 1..Len(obs.linked_before) :
          Truthy(obs.linked_before[i].protocol_url)
             => Truthy(obs.linked_before[i].protocol_pdf_path)
    => /\ \A i \in 1..Len(obs.linked_before) :
             /\ protocols[i].protocol_pdf_path = obs.linked_before[i].protocol_pdf_path
             /\ protocols[i].has_protocol_doc = obs.linked_before[i].has_protocol_doc
       /\ GetProtocolsWithoutPdf(protocols, NULL) = <<>>

\* C29: a row's indication is the term of the most recent upsert of its
\* nct_id: when a run upserts a record under its term B the trial is stored
\* once, get_protocols_by_indication lists it under B and under no other
\* term, get_statistics counts every row under exactly one term, and no
\* other step changes the indication of a row.
C29_LastTermWins ==
    [][LET n == Len(obs'.upserted)
           did == n > Len(obs.upserted)
       IN  /\ did =>
                LET nct == obs'.upserted[n].nct_id
                IN  /\ Cardinality(SelectByNct(protocols', nct)) = 1
                    /\ \A t \in Terms :
                          (\E i \in 1..Len(GetProtocolsByIndication(protocols', t)) :
                              GetProtocolsByIndication(protocols', t)[i].nct_id = nct)
                          <=> t = stats.indication
                    /\ GetStatistics(protocols', stats.indication).total_studies
                          = Len(GetProtocolsByIndication(protocols', stats.indication))
                    /\ GetStatistics(protocols', <<"a">>).total_studies
                          + GetStatistics(protocols', <<"A", "!">>).total_studies
                          = Len(protocols')
           /\ \A i \in 1..Len(protocols) :
                 protocols'[i].indication # protocols[i].indication =>
                    did /\ protocols'[i].nct_id = obs'.upserted[n].nct_id]_vars

\* a trial was returned under the term "a" and then under the term "A!",
\* and is stored once, under "A!"
C29_Witness ==
    /\ pc = "done"
    /\ run.indications = << <<"a">>, <<"A", "!">> >>
    /\ obs.outcomes = <<"complete", "complete">>
    /\ Len(protocols) = 1
    /\ protocols[1].indication = <<"A", "!">>
    /\ GetStatistics(protocols, <<"a">>).total_studies = 0
    /\ GetStatistics(protocols, <<"A", "!">>).total_studies = 1

\* C30: at every point of a process_indication run (between the processing
\* of two records), in the statistics it returns and in the history entry
\* it logs, studies_found = new_studies + updated_studies and
\* protocols_downloaded + download_errors <= studies_found (the history
\* entry has no error count: protocols_downloaded <= studies_found).
C30_CountersAddUp ==
    /\ stats # NoStats =>
          /\ stats.studies_found = stats.new_studies + stats.updated_studies
          /\ stats.protocols_downloaded + stats.download_errors <= stats.studies_found
    /\ \A i \in 1..Len(all_stats) :
          "error" \notin DOMAIN all_stats[i] =>
             /\ all_stats[i].studies_found
                   = all_stats[i].new_studies + all_stats[i].updated_studies
             /\ all_stats[i].protocols_downloaded + all_stats[i].download_errors
                   <= all_stats[i].studies_found
    /\ \A i \in 1..Len(download_history) :
          /\ download_history[i].studies_found
                = download_history[i].new_studies + download_history[i].updated_studies
          /\ download_history[i].protocols_downloaded
                <= download_history[i].studies_found

\* a term of three records, two of them new and one an update, one of
\* which had a document that could not be downloaded, has been logged and
\* returned
C30_Witness ==
    /\ pc = "done"
    /\ Len(download_history) = 1
    /\ download_history[1].studies_found = 3
    /\ download_history[1].new_studies = 2
    /\ download_history[1].updated_studies = 1
    /\ Len(all_stats) = 1
    /\ Get(all_stats[1], "download_errors", 0) = 1

\* C31: in process_indication a document is retrieved only for the record
\* that was just upserted, update_pdf_path is called only for the nct_id
\* whose download_pdf has just succeeded in this run and touches that row
\* alone, protocols_downloaded is the number of update_pdf_path calls of
\* the run, and the history entry is logged after the last record: every
\* record counted has been upserted and the term is left.
C31_StepOrder ==
    /\ [](pc \in {"request", "body", "download", "log"} =>
            /\ stats.protocols_downloaded = Len(obs.path_calls)
            /\ obs.path_calls = obs.dl_ok)
    /\ [][LET n == Len(obs'.path_calls)
              called == n > Len(obs.path_calls)
          IN  /\ pc' = "download" /\ pc # "download" =>
                    /\ pc = "body"
                    /\ Len(obs'.upserted) = Len(obs.upserted) + 1
              /\ called =>
                    /\ pc = "download"
                    /\ obs'.path_calls[n] = obs.upserted[Len(obs.upserted)].nct_id
                    /\ obs'.dl_ok = Append(obs.dl_ok, obs'.path_calls[n])
                    /\ \A i \in 1..Len(protocols) :
                          IF protocols[i].nct_id = obs'.path_calls[n]
                          THEN protocols'[i].protocol_pdf_path
                                  = PdfPath(stats.indication, obs'.path_calls[n])
                          ELSE protocols'[i] = protocols[i]
              /\ protocols' # protocols =>
                    \/ pc = "body" /\ Len(obs'.upserted) = Len(obs.upserted) + 1
                    \/ pc = "download" /\ called
              /\ download_history' # download_history =>
                    /\ pc = "log"
                    /\ pc' = "run_loop"
                    /\ Len(obs.upserted) = stats.studies_found]_vars

\* a term of three records has been logged after the document of its last
\* record was downloaded and its path recorded, two rows being stored
C31_Witness ==
    /\ pc = "done"
    /\ Len(download_history) = 1
    /\ Len(obs.upserted) = 3
    /\ Len(protocols) = 2
    /\ obs.path_calls = <<obs.upserted[3].nct_id>>
    /\ download_history[1].protocols_downloaded = 1

\* C32: when the document retrieval of a record ended in exhausted failure
\* in a process_indication run, whatever the way its attempts failed, a
\* later run for the same term over the same remote data calls download_pdf
\* for the record again: after a run over the same term twice with document
\* retrieval enabled, both fetched to the end, in whose first term every
\* retrieval failed, the second term has made a download_pdf call.
C32_FailedRetrievalRetried ==
    ( /\ pc = "done"
      /\ Len(run.indications) = 2
      /\ run.indications[1] = run.indications[2]
      /\ run.download_pdfs
      /\ obs.outcomes = <<"complete", "complete">>
      /\ all_stats[1].download_errors >= 1
      /\ all_stats[1].protocols_downloaded = 0 )
    => /\ obs.dl_calls >= 1
       /\ all_stats[2].protocols_downloaded + all_stats[2].download_errors >= 1

\* C33: every upsert and every recorded document path is committed on its
\* own: when process_indication raises after k records of the term were
\* upserted, the tables are exactly as the last completed store operation
\* left them, so the rows written by earlier terms are untouched, each of
\* the k records has its row, holding what the term's last upsert of its
\* nct_id wrote, and the path recorded after the last of them is in place.
C33_IndependentCommits ==
    [][Len(obs'.outcomes) > Len(obs.outcomes)
       /\ obs'.outcomes[Len(obs'.outcomes)] = "raised" =>
          LET k == Len(obs.upserted)
          IN  /\ protocols' = protocols
              /\ download_history' = download_history
              /\ Len(protocols') >= obs.rows_before
              /\ \A j \in 1..k :
                    /\ Cardinality(SelectByNct(protocols', obs.upserted[j].nct_id)) = 1
                    /\ (\A l \in (j + 1)..k :
                            obs.upserted[l].nct_id # obs.upserted[j].nct_id)
                        => \A row \in RowsOf(protocols', obs.upserted[j].nct_id) :
                              /\ row.official_title = obs.upserted[j].official_title
                              /\ row.indication = obs.upserted[j].indication
                              /\ row.protocol_url = obs.upserted[j].protocol_url
              /\ ( /\ k >= 1
                    /\ obs.path_calls # <<>>
                    /\ obs.path_calls[Len(obs.path_calls)] = obs.upserted[k].nct_id
                    /\ \A l \in 1..(k - 1) :
                          obs.upserted[l].nct_id # obs.upserted[k].nct_id )
                  => \A row \in RowsOf(protocols', obs.upserted[k].nct_id) :
                        row.protocol_pdf_path
                           = PdfPath(stats.indication, obs.upserted[k].nct_id)]_vars

\* the second term of a run has raised at its second record: the row its
\* first record was upserted into carries the second term, and the row the
\* first term wrote for the other trial is in place
C33_Witness ==
    /\ pc = "done"
    /\ obs.outcomes = <<"complete", "raised">>
    /\ run.indications[1] # run.indications[2]
    /\ Len(obs.upserted) = 1
    /\ Len(obs.yielded) = 2
    /\ Len(protocols) = 2
    /\ \E i, j \in 1..2 :
          /\ protocols[i].indication = run.indications[2]
          /\ protocols[j].indication = run.indications[1]

\* C34: under a maximum-record cap M >= 1, once M records have been
\* processed process_indication causes no further request and no further
\* REQUEST_DELAY sleep: no request is pending, the last page requested is
\* the one that holds the M-th record, and the delays slept are those
\* between the pages up to it.
C34_NoRequestPastCap ==
    ( /\ IntTruthy(run.max_studies)
      /\ pc \in {"request", "body", "download", "log", "run_loop", "done"}
      /\ frame.studies_processed >= run.max_studies[2] )
    => LET needed == CHOOSE p \in 1..Len(remote) :
                        /\ Sum([i \in 1..p |-> Len(remote[i])]) >= run.max_studies[2]
                        /\ \A q \in 1..(p - 1) :
                              Sum([i \in 1..q |-> Len(remote[i])]) < run.max_studies[2]
       IN  /\ pc # "request"
           /\ obs.page <= needed
           /\ obs.page_delays <= needed - 1

=============================================================================
